---- MODULE Spec2Model ----
(***************************************************************************)
(* Model of the pattern analyzers of osu-map-analyzer-lib:                 *)
(*   src/src/utils.rs           bpm, BeatLenDuration                       *)
(*   src/src/analyze/jump.rs    Jump::analyze, Jump::analyze_window        *)
(*   src/src/analyze/stream.rs  Stream::analyze, Stream::analyze_window    *)
(*                                                                         *)
(* An f64 is modelled as an exact fraction [n, d] in lowest terms with     *)
(* d > 0, extended with the IEEE special values the code can produce:      *)
(* d = 0 and n = 1 is +inf, d = 0 and n = -1 is -inf, d = 0 and n = 0 is    *)
(* NaN.  Rounding error of finite arithmetic is not modelled; division by  *)
(* zero, NaN propagation and the NaN rules of f64::min / f64::max are.     *)
(***************************************************************************)
EXTENDS Integers, Sequences, FiniteSets, TLC

VARIABLES
    hit_objects,      \* map.hit_objects: sequence of [start_time, end_time, pos]
    timing_points,    \* map.control_points.timing_points: sequence of [time, beat_len]
    pc,               \* which analyze call is running: "idle", "jump", "stream"
    jump,             \* the locals of Jump::analyze (last or running call)
    stream,           \* the locals of Stream::analyze (last or running call)
    jump_result,      \* <<>> or <<JumpAnalysis>>: what the last Jump::analyze returned
    stream_result     \* <<>> or <<StreamAnalysis>>: what the last Stream::analyze returned

vars == <<hit_objects, timing_points, pc, jump, stream, jump_result, stream_result>>

----------------------------------------------------------------------------
(* f64 arithmetic                                                          *)

Abs(x) == IF x < 0 THEN -x ELSE x

Sgn(x) == IF x < 0 THEN -1 ELSE IF x > 0 THEN 1 ELSE 0

RECURSIVE GCD(_, _)
GCD(a, b) == IF b = 0 THEN a ELSE GCD(b, a % b)

F(n, d) == [n |-> n, d |-> d]

\* n/d in lowest terms; x/0 is +inf, -inf or NaN by the sign of x
Norm(n, d) ==
    IF d = 0 THEN F(Sgn(n), 0)
    ELSE LET g == GCD(Abs(n), Abs(d))
             s == IF d < 0 THEN -1 ELSE 1
         IN  F(s * Sgn(n) * (Abs(n) \div g), Abs(d) \div g)

Int2F(i) == F(i, 1)

Zero == F(0, 1)

One == F(1, 1)

NaN == F(0, 0)

PosInf == F(1, 0)

IsNaN(a) == a.d = 0 /\ a.n = 0

IsFinite(a) == a.d > 0

FNeg(a) == F(-a.n, a.d)

FAbs(a) == F(Abs(a.n), a.d)

FAdd(a, b) ==
    IF a.d > 0 /\ b.d > 0 THEN Norm(a.n * b.d + b.n * a.d, a.d * b.d)
    ELSE IF IsNaN(a) \/ IsNaN(b) THEN NaN
    ELSE IF a.d = 0 /\ b.d = 0 THEN (IF a.n = b.n THEN a ELSE NaN)
    ELSE IF a.d = 0 THEN a
    ELSE b

FSub(a, b) == FAdd(a, FNeg(b))

FMul(a, b) == Norm(a.n * b.n, a.d * b.d)

FDiv(a, b) ==
    IF b.n < 0 THEN Norm(-(a.n * b.d), a.d * (-b.n))
    ELSE Norm(a.n * b.d, a.d * b.n)

\* a <= b of f64: false when either side is NaN
FLe(a, b) ==
    IF IsNaN(a) \/ IsNaN(b) THEN FALSE
    ELSE IF a.d = 0 THEN (a.n = -1 \/ (b.d = 0 /\ b.n = 1))
    ELSE IF b.d = 0 THEN b.n = 1
    ELSE a.n * b.d <= b.n * a.d

\* a >= b of f64 on an f32 distance and its threshold
FGe(a, b) == FLe(b, a)

\* f64::min: the other operand when one is NaN
FMin(a, b) == IF IsNaN(a) THEN b ELSE IF IsNaN(b) THEN a ELSE IF FLe(a, b) THEN a ELSE b

\* f64::max: the other operand when one is NaN
FMax(a, b) == IF IsNaN(a) THEN b ELSE IF IsNaN(b) THEN a ELSE IF FLe(a, b) THEN b ELSE a

\* f64::total_cmp(a, b) is not Greater (positive NaN sorts above +inf)
TotalLe(a, b) == IF IsNaN(b) THEN TRUE ELSE IF IsNaN(a) THEN FALSE ELSE FLe(a, b)

\* f64::round: to the nearest integer, halves away from zero
FRound(a) ==
    IF a.d = 0 THEN a
    ELSE F(Sgn(a.n) * ((2 * Abs(a.n) + a.d) \div (2 * a.d)), 1)

----------------------------------------------------------------------------
(* iterator helpers                                                        *)

RECURSIVE SumFrom(_, _)
SumFrom(s, i) == IF i > Len(s) THEN 0 ELSE s[i] + SumFrom(s, i + 1)

\* iter().sum::<usize>()
Sum(s) == SumFrom(s, 1)

\* the sum of s[lo..hi], halved so that the evaluation stays shallow
RECURSIVE FSumRange(_, _, _)
FSumRange(s, lo, hi) ==
    IF lo > hi THEN Zero
    ELSE IF lo = hi THEN s[lo]
    ELSE LET mid == (lo + hi) \div 2
         IN  FAdd(FSumRange(s, lo, mid), FSumRange(s, mid + 1, hi))

\* iter().sum::<f64>()
FSum(s) == FSumRange(s, 1, Len(s))

\* iter().max().unwrap_or(&0)
MaxOr0(s) ==
    IF s = <<>> THEN 0
    ELSE CHOOSE m \in {s[i] : i \in DOMAIN s} : \A j \in DOMAIN s : s[j] <= m

Max(a, b) == IF a >= b THEN a ELSE b

Min(a, b) == IF a <= b THEN a ELSE b

----------------------------------------------------------------------------
(* utils.rs                                                                *)

\* BeatLenDuration::new; the HashMap<u64, f64> is a function from the
\* quantized beat length (the key's bit pattern) to the accumulated duration
BeatLenDuration_new(last_time) == [last_time |-> last_time, map |-> <<>>]

\* BeatLenDuration::add
BeatLenDuration_add(self, beat_len, curr_time, next_time) ==
    LET key == FDiv(FRound(FMul(Int2F(1000), beat_len)), Int2F(1000))
        entry == IF key \in DOMAIN self.map THEN self.map[key] ELSE Zero
        value == IF FLe(curr_time, self.last_time)
                 THEN FAdd(entry, FSub(next_time, curr_time))
                 ELSE entry
    IN  [self EXCEPT !.map = [k \in (DOMAIN self.map) \cup {key} |->
                                 IF k = key THEN value ELSE self.map[k]]]

\* the for_each of bpm over timing_points.skip(1) zipped with the times of skip(2)
RECURSIVE add_middle(_, _, _)
add_middle(bpm_points, tps, i) ==
    IF i + 1 > Len(tps) THEN bpm_points
    ELSE add_middle(BeatLenDuration_add(bpm_points, tps[i].beat_len, tps[i].time, tps[i + 1].time),
                    tps, i + 1)

\* last_time of bpm; last_hit_object is <<>> (None) or <<hit object>> (Some)
bpm_last_time(last_hit_object, tps) ==
    IF last_hit_object # <<>> THEN last_hit_object[1].end_time
    ELSE IF tps # <<>> THEN tps[Len(tps)].time
    ELSE Zero

\* bpm_points of bpm once every add is done
bpm_points_of(last_hit_object, tps) ==
    LET last_time == bpm_last_time(last_hit_object, tps)
        p0 == BeatLenDuration_new(last_time)
        p1 == IF Len(tps) = 1 THEN BeatLenDuration_add(p0, tps[1].beat_len, Zero, last_time)
              ELSE IF Len(tps) >= 2 THEN BeatLenDuration_add(p0, tps[1].beat_len, Zero, tps[2].time)
              ELSE p0
        p2 == add_middle(p1, tps, 2)
    IN  IF Len(tps) >= 2
        THEN BeatLenDuration_add(p2, tps[Len(tps)].beat_len, tps[Len(tps)].time, last_time)
        ELSE p2

\* map.into_iter().max_by(total_cmp).map_or(0.0, key): the HashMap iterates
\* in an unspecified order (RandomState is seeded anew for each map), so among
\* keys of equal largest duration any one can be the one returned
most_common_beat_len(map) ==
    IF DOMAIN map = {} THEN {Zero}
    ELSE {k \in DOMAIN map : \A j \in DOMAIN map : TotalLe(map[j], map[k])}

\* the value bpm returns when max_by yields most_common
bpm_value(most_common) == FMax(FDiv(Int2F(60000), most_common), One)

\* every value bpm(last_hit_object, timing_points) can return
bpm(last_hit_object, tps) ==
    {bpm_value(m) : m \in most_common_beat_len(bpm_points_of(last_hit_object, tps).map)}

\* calculate_distance: the planar distance of two hit objects (positions
\* are integer points whose distances are whole numbers)
calculate_distance(obj1, obj2) ==
    LET dx == Abs(obj1.pos[1] - obj2.pos[1])
        dy == Abs(obj1.pos[2] - obj2.pos[2])
    IN  Int2F(CHOOSE r \in 0..(dx + dy) : r * r = dx * dx + dy * dy)

----------------------------------------------------------------------------
(* analyze_window                                                          *)

tolerance == F(1, 10)

distance_threshold == 120

window_size == 200

step_size == 50

\* the test of stream.rs line 143
stream_accepts(time_diff, expected_interval) ==
    FLe(FDiv(FAbs(FSub(time_diff, expected_interval)), expected_interval), tolerance)

\* the test of jump.rs lines 157-158
jump_accepts(time_diff, distance, expected_interval) ==
    /\ FLe(FDiv(FAbs(FSub(time_diff, expected_interval)), expected_interval), tolerance)
    /\ FGe(distance, Int2F(distance_threshold))

\* scan_step with the clear() after the push forgotten
scan_step_no_clear(st, accepted, time_diff) ==
    IF accepted
    THEN [lengths |-> st.lengths,
          current |-> Append(st.current, time_diff),
          bpm_variations |->
              IF Len(st.current) + 1 > 1
              THEN Append(st.bpm_variations,
                          FAbs(FSub(time_diff, st.current[Len(st.current)])))
              ELSE st.bpm_variations]
    ELSE IF st.current # <<>>
    THEN [lengths |-> Append(st.lengths, Len(st.current)),
          current |-> st.current,
          bpm_variations |-> st.bpm_variations]
    ELSE st

\* scan_step that records a run only when it holds more than one gap
scan_step_skip_single(st, accepted, time_diff) ==
    IF accepted
    THEN [lengths |-> st.lengths,
          current |-> Append(st.current, time_diff),
          bpm_variations |->
              IF Len(st.current) + 1 > 1
              THEN Append(st.bpm_variations,
                          FAbs(FSub(time_diff, st.current[Len(st.current)])))
              ELSE st.bpm_variations]
    ELSE IF Len(st.current) > 1
    THEN [lengths |-> Append(st.lengths, Len(st.current)),
          current |-> <<>>,
          bpm_variations |-> st.bpm_variations]
    ELSE [lengths |-> st.lengths, current |-> <<>>, bpm_variations |-> st.bpm_variations]

\* one iteration of the for loop of analyze_window, given whether the pair
\* is accepted; st holds lengths, current (the VecDeque) and bpm_variations
scan_step(st, accepted, time_diff) ==
    IF accepted
    THEN [lengths |-> st.lengths,
          current |-> Append(st.current, time_diff),
          bpm_variations |->
              IF Len(st.current) + 1 > 1
              THEN Append(st.bpm_variations,
                          FAbs(FSub(time_diff, st.current[Len(st.current)])))
              ELSE st.bpm_variations]
    ELSE IF st.current # <<>>
    THEN [lengths |-> Append(st.lengths, Len(st.current)),
          current |-> <<>>,
          bpm_variations |-> st.bpm_variations]
    ELSE st

\* scan_end with the flush of the run in progress forgotten
scan_end_no_flush(st) == [lengths |-> st.lengths, bpm_variations |-> st.bpm_variations]

\* the flush after the loop
scan_end(st) ==
    [lengths |-> IF st.current # <<>> THEN Append(st.lengths, Len(st.current)) ELSE st.lengths,
     bpm_variations |-> st.bpm_variations]

scan_init == [lengths |-> <<>>, current |-> <<>>, bpm_variations |-> <<>>]

\* the for loop of Stream::analyze_window over the pairs (window[i], window[i + 1]),
\* i in lo..hi, in order: the first half, then the second half from the state
\* the first half leaves (halving and the one-element set keep the evaluation shallow)
RECURSIVE stream_scan(_, _, _, _, _)
stream_scan(window, lo, hi, expected_interval, st) ==
    IF lo > hi THEN st
    ELSE IF lo = hi
    THEN LET time_diff == FSub(window[lo + 1].start_time, window[lo].start_time)
         IN  scan_step(st, stream_accepts(time_diff, expected_interval), time_diff)
    ELSE LET mid == (lo + hi) \div 2
         IN  CHOOSE r \in {stream_scan(window, mid + 1, hi, expected_interval, left) :
                           left \in {stream_scan(window, lo, mid, expected_interval, st)}} : TRUE

\* Stream::analyze_window
stream_analyze_window(window, expected_interval) ==
    scan_end(stream_scan(window, 1, Len(window) - 1, expected_interval, scan_init))

\* the for loop of Jump::analyze_window over the pairs (window[i], window[i + 1]),
\* i in lo..hi, in order: the first half, then the second half from the state
\* the first half leaves (halving and the one-element set keep the evaluation shallow)
RECURSIVE jump_scan(_, _, _, _, _)
jump_scan(window, lo, hi, expected_interval, st) ==
    IF lo > hi THEN st
    ELSE IF lo = hi
    THEN LET time_diff == FSub(window[lo + 1].start_time, window[lo].start_time)
             distance == calculate_distance(window[lo], window[lo + 1])
         IN  scan_step(st, jump_accepts(time_diff, distance, expected_interval), time_diff)
    ELSE LET mid == (lo + hi) \div 2
         IN  CHOOSE r \in {jump_scan(window, mid + 1, hi, expected_interval, left) :
                           left \in {jump_scan(window, lo, mid, expected_interval, st)}} : TRUE

\* Jump::analyze_window
jump_analyze_window(window, expected_interval) ==
    scan_end(jump_scan(window, 1, Len(window) - 1, expected_interval, scan_init))

\* bpm_consistency of one window
window_consistency(bpm_variations, expected_interval) ==
    IF bpm_variations # <<>>
    THEN FSub(One, FDiv(FDiv(FSum(bpm_variations), Int2F(Len(bpm_variations))),
                        expected_interval))
    ELSE Zero

----------------------------------------------------------------------------
(* Jump::analyze                                                           *)

\* the short filter with an upper limit that lets 10 in
jump_is_short_le10(len) == len > 2 /\ len <= 10

\* the three filters of jump.rs lines 74-82
jump_is_short(len) == len > 2 /\ len < 10

jump_is_medium(len) == len >= 10 /\ len < 20

jump_is_long(len) == len >= 20

\* beat_length and expected_jump_interval of lines 49-50: half a beat
jump_interval(b) == FDiv(FMul(FDiv(Int2F(60), b), Int2F(1000)), Int2F(2))

\* the locals of Jump::analyze before the loop (lines 45-65), bpm having returned b
jump_start(b) ==
    [phase |-> "loop",
     bpm |-> b,
     expected_jump_interval |-> jump_interval(b),
     window_start |-> 0,
     max_jump_length |-> 0,
     peak_jump_density |-> Zero,
     total_short_jump_count |-> 0,
     total_medium_jump_count |-> 0,
     total_long_jump_count |-> 0,
     overall_bpm_consistency |-> Zero,
     total_jump_notes_length |-> 0,
     total_jumps |-> 0,
     window_end |-> 0,
     jumps_lengths |-> <<>>,
     bpm_variations |-> <<>>,
     short_jumps |-> 0,
     medium_jumps |-> 0,
     long_jumps |-> 0,
     bpm_consistency |-> Zero]

\* one iteration of the loop of lines 67-105 on the locals j
jump_window(j, objs) ==
    LET window_end == Min(j.window_start + window_size, Len(objs))
        window == SubSeq(objs, j.window_start + 1, window_end)
        r == jump_analyze_window(window, j.expected_jump_interval)
        short_jumps == Cardinality({i \in DOMAIN r.lengths : jump_is_short(r.lengths[i])})
        medium_jumps == Cardinality({i \in DOMAIN r.lengths : jump_is_medium(r.lengths[i])})
        long_jumps == Cardinality({i \in DOMAIN r.lengths : jump_is_long(r.lengths[i])})
        total_jump_notes == Sum(r.lengths)
        jump_density == FDiv(Int2F(total_jump_notes), Int2F(Len(window)))
        bpm_consistency == window_consistency(r.bpm_variations, j.expected_jump_interval)
    IN  [j EXCEPT
            !.total_short_jump_count = @ + short_jumps,
            !.total_medium_jump_count = @ + medium_jumps,
            !.total_long_jump_count = @ + long_jumps,
            !.peak_jump_density = FMax(@, jump_density),
            !.max_jump_length = Max(@, MaxOr0(r.lengths)),
            !.total_jump_notes_length = @ + Sum(r.lengths),
            !.total_jumps = @ + Len(r.lengths),
            !.overall_bpm_consistency = FMax(@, bpm_consistency),
            !.window_end = window_end,
            !.jumps_lengths = r.lengths,
            !.bpm_variations = r.bpm_variations,
            !.short_jumps = short_jumps,
            !.medium_jumps = medium_jumps,
            !.long_jumps = long_jumps,
            !.bpm_consistency = bpm_consistency,
            !.window_start = @ + step_size]

\* long_jump_ratio of line 117
long_jump_ratio(j) == FDiv(Int2F(j.total_long_jump_count), Int2F(j.total_jumps))

\* the weighted sum of lines 119-123, before the clamp
jump_confidence_sum(j) ==
    LET average_jump_length ==
            IF j.total_jumps > 0
            THEN FDiv(Int2F(j.total_jump_notes_length), Int2F(j.total_jumps))
            ELSE Zero
        jump_variety ==
            FDiv(Int2F(j.total_medium_jump_count * 2 + j.total_long_jump_count * 3),
                 Int2F(Max(j.total_short_jump_count + j.total_medium_jump_count
                           + j.total_long_jump_count, 1)))
    IN  FAdd(FAdd(FAdd(FAdd(FMul(j.peak_jump_density, F(2, 5)),
                            FMul(j.overall_bpm_consistency, F(1, 5))),
                       FMul(jump_variety, F(7, 20))),
                  FMul(long_jump_ratio(j), F(9, 20))),
             FMul(FMin(FDiv(average_jump_length, Int2F(3)), One), F(3, 10)))

\* a clamp that is forgotten
jump_confidence_unclamped(j) == jump_confidence_sum(j)

\* overall_confidence of lines 119-124: the sum, then .min(1.0)
jump_confidence(j) == FMin(jump_confidence_sum(j), One)

\* the JumpAnalysis of lines 126-135
jump_analysis(j) ==
    [long_jumps_count |-> j.total_long_jump_count,
     medium_jumps_count |-> j.total_medium_jump_count,
     short_jumps_count |-> j.total_short_jump_count,
     max_jump_length |-> j.max_jump_length,
     total_jump_count |-> j.total_jumps,
     overall_confidence |-> jump_confidence(j),
     peak_jump_density |-> j.peak_jump_density,
     bpm_consistency |-> j.overall_bpm_consistency]

----------------------------------------------------------------------------
(* Stream::analyze                                                         *)

\* the expected interval of Jump::analyze, half a beat, taken for streams
stream_interval_half(b) == FDiv(FMul(FDiv(Int2F(60), b), Int2F(1000)), Int2F(2))

\* beat_length and expected_stream_interval of lines 45-46: a quarter of a beat
stream_interval(b) == FDiv(FMul(FDiv(Int2F(60), b), Int2F(1000)), Int2F(4))

\* the three filters of stream.rs lines 68-76
stream_is_short(len) == len >= 5 /\ len < 10

stream_is_medium(len) == len >= 10 /\ len < 20

stream_is_long(len) == len >= 20

\* the locals of Stream::analyze before the loop (lines 44-59), bpm having returned b
stream_start(b) ==
    [phase |-> "loop",
     bpm |-> b,
     expected_stream_interval |-> stream_interval(b),
     window_start |-> 0,
     max_stream_length |-> 0,
     total_short_stream_count |-> 0,
     total_medium_stream_count |-> 0,
     total_long_stream_count |-> 0,
     peak_stream_density |-> Zero,
     overall_bpm_consistency |-> Zero,
     total_stream_length |-> 0,
     total_streams |-> 0,
     window_end |-> 0,
     stream_lengths |-> <<>>,
     bpm_variations |-> <<>>,
     short_streams |-> 0,
     medium_streams |-> 0,
     long_streams |-> 0,
     bpm_consistency |-> Zero]

\* one iteration of the loop of lines 61-97 on the locals s
stream_window(s, objs) ==
    LET window_end == Min(s.window_start + window_size, Len(objs))
        window == SubSeq(objs, s.window_start + 1, window_end)
        r == stream_analyze_window(window, s.expected_stream_interval)
        short_streams == Cardinality({i \in DOMAIN r.lengths : stream_is_short(r.lengths[i])})
        medium_streams == Cardinality({i \in DOMAIN r.lengths : stream_is_medium(r.lengths[i])})
        long_streams == Cardinality({i \in DOMAIN r.lengths : stream_is_long(r.lengths[i])})
        total_stream_notes == Sum(r.lengths)
        stream_density == FDiv(Int2F(total_stream_notes), Int2F(Len(window)))
        bpm_consistency == window_consistency(r.bpm_variations, s.expected_stream_interval)
    IN  [s EXCEPT
            !.max_stream_length = Max(@, MaxOr0(r.lengths)),
            !.total_short_stream_count = @ + short_streams,
            !.total_medium_stream_count = @ + medium_streams,
            !.total_long_stream_count = @ + long_streams,
            !.total_stream_length = @ + Sum(r.lengths),
            !.total_streams = @ + Len(r.lengths),
            !.peak_stream_density = FMax(@, stream_density),
            !.overall_bpm_consistency = FMax(@, bpm_consistency),
            !.window_end = window_end,
            !.stream_lengths = r.lengths,
            !.bpm_variations = r.bpm_variations,
            !.short_streams = short_streams,
            !.medium_streams = medium_streams,
            !.long_streams = long_streams,
            !.bpm_consistency = bpm_consistency,
            !.window_start = @ + step_size]

\* long_stream_ratio of line 109
long_stream_ratio(s) == FDiv(Int2F(s.total_long_stream_count), Int2F(Max(s.total_streams, 1)))

\* the weighted sum of lines 111-115, before the clamp
stream_confidence_sum(s) ==
    LET average_stream_length ==
            IF s.total_streams > 0
            THEN FDiv(Int2F(s.total_stream_length), Int2F(s.total_streams))
            ELSE Zero
        stream_variety ==
            FDiv(Int2F(s.total_medium_stream_count * 2 + s.total_long_stream_count * 3),
                 Int2F(Max(s.total_short_stream_count + s.total_medium_stream_count
                           + s.total_long_stream_count, 1)))
    IN  FAdd(FAdd(FAdd(FAdd(FMul(s.peak_stream_density, F(3, 10)),
                            FMul(s.overall_bpm_consistency, F(1, 5))),
                       FMul(stream_variety, F(1, 5))),
                  FMul(long_stream_ratio(s), F(1, 5))),
             FMul(FMin(FDiv(average_stream_length, Int2F(5)), One), F(1, 5)))

\* overall_confidence of lines 111-116: the sum, then .min(1.0)
stream_confidence(s) == FMin(stream_confidence_sum(s), One)

\* the StreamAnalysis of lines 118-126
stream_analysis(s) ==
    [overall_confidence |-> stream_confidence(s),
     short_streams |-> s.total_short_stream_count,
     medium_streams |-> s.total_medium_stream_count,
     long_streams |-> s.total_long_stream_count,
     max_stream_length |-> s.max_stream_length,
     peak_stream_density |-> s.peak_stream_density,
     bpm_consistency |-> s.overall_bpm_consistency]

----------------------------------------------------------------------------
(* the calls                                                               *)

\* Jump::analyze up to the loop: bpm is given the last hit object, if any
JumpStart ==
    /\ pc = "idle"
    /\ \E b \in bpm(IF hit_objects = <<>> THEN <<>> ELSE <<hit_objects[Len(hit_objects)]>>,
                    timing_points) :
           jump' = jump_start(b)
    /\ pc' = "jump"
    /\ UNCHANGED <<hit_objects, timing_points, stream, jump_result, stream_result>>

\* one iteration of the window loop of Jump::analyze
JumpWindow ==
    /\ pc = "jump"
    /\ jump.window_start < Len(hit_objects)
    /\ jump' = jump_window(jump, hit_objects)
    /\ UNCHANGED <<hit_objects, timing_points, pc, stream, jump_result, stream_result>>

\* Jump::analyze after the loop: the confidence and the returned record
JumpFinish ==
    /\ pc = "jump"
    /\ jump.window_start >= Len(hit_objects)
    /\ jump' = [jump EXCEPT !.phase = "done"]
    /\ jump_result' = <<jump_analysis(jump)>>
    /\ pc' = "idle"
    /\ UNCHANGED <<hit_objects, timing_points, stream, stream_result>>

\* Stream::analyze up to the loop: bpm is given None
StreamStart ==
    /\ pc = "idle"
    /\ \E b \in bpm(<<>>, timing_points) : stream' = stream_start(b)
    /\ pc' = "stream"
    /\ UNCHANGED <<hit_objects, timing_points, jump, jump_result, stream_result>>

\* one iteration of the window loop of Stream::analyze
StreamWindow ==
    /\ pc = "stream"
    /\ stream.window_start < Len(hit_objects)
    /\ stream' = stream_window(stream, hit_objects)
    /\ UNCHANGED <<hit_objects, timing_points, pc, jump, jump_result, stream_result>>

\* Stream::analyze after the loop: the confidence and the returned record
StreamFinish ==
    /\ pc = "stream"
    /\ stream.window_start >= Len(hit_objects)
    /\ stream' = [stream EXCEPT !.phase = "done"]
    /\ stream_result' = <<stream_analysis(stream)>>
    /\ pc' = "idle"
    /\ UNCHANGED <<hit_objects, timing_points, jump, jump_result>>

Next ==
    \/ JumpStart
    \/ JumpWindow
    \/ JumpFinish
    \/ StreamStart
    \/ StreamWindow
    \/ StreamFinish

----------------------------------------------------------------------------
(* the beatmaps analyzed                                                   *)

\* a circle: its end time is its start time
HitObject(start_time, pos) == [start_time |-> start_time, end_time |-> start_time, pos |-> pos]

TimingPoint(time, beat_len) == [time |-> time, beat_len |-> beat_len]

\* the start time of note i when the onset gaps are gap[1], gap[2], ...
RECURSIVE start_of(_, _)
start_of(gap, i) == IF i <= 1 THEN Zero ELSE FAdd(start_of(gap, i - 1), gap[i - 1])

\* the notes with onset gaps gap[1..n-1] and positions pos[1..n]
Notes(n, gap, pos) == [i \in 1..n |-> HitObject(start_of(gap, i), pos[i])]

Near == <<0, 0>>

Far == <<150, 0>>

\* the analyzers before any call, over the map (objs, tps)
InitOn(objs, tps) ==
    /\ hit_objects = objs
    /\ timing_points = tps
    /\ pc = "idle"
    /\ jump = [jump_start(One) EXCEPT !.phase = "none"]
    /\ stream = [stream_start(One) EXCEPT !.phase = "none"]
    /\ jump_result = <<>>
    /\ stream_result = <<>>

MaxNotes == 4

GapSet == {Int2F(100), Int2F(110), Int2F(200)}

PosSet == {Near, Far}

\* every note sequence of up to MaxNotes circles with gaps of GapSet and positions of PosSet
ShortMaps ==
    UNION {{Notes(n, gap, pos) : gap \in [1..(n - 1) -> GapSet], pos \in [1..n -> PosSet]} :
           n \in 0..MaxNotes}

ShortTimelines ==
    {<<>>, <<TimingPoint(Zero, Int2F(400))>>, <<TimingPoint(Zero, Int2F(200))>>}

MaxPattern == 26

\* alternating positions: every consecutive distance is 150
Alternating == [i \in 1..(MaxPattern + 1) |-> IF i % 2 = 1 THEN Near ELSE Far]

\* n notes with every onset gap base, but gap k (when k > 0) half as large again
OutlierMap(n, base, k) ==
    Notes(n, [i \in 1..(n - 1) |-> IF i = k THEN FMul(base, F(3, 2)) ELSE base], Alternating)

\* n notes: gaps of 200 ms (half a beat of 400 ms) before gap k, gaps of
\* 100 ms (a quarter of that beat) from gap k on
MixedMap(n, k) ==
    Notes(n, [i \in 1..(n - 1) |-> IF i < k THEN Int2F(200) ELSE Int2F(100)], Alternating)

\* regular sequences with at most one outlier gap, and mixed ones, on one
\* tempo segment of beat length 400 ms
PatternMaps ==
    UNION {{OutlierMap(n, base, k) : base \in {Int2F(100), Int2F(200)}, k \in 0..(n - 1)}
           \cup {MixedMap(n, k) : k \in 2..(n - 1)} : n \in 0..MaxPattern}

\* notes that all start at the same time
UnisonMaps == {OutlierMap(n, Zero, 0) : n \in 0..MaxPattern}

Init ==
    \/ \E objs \in ShortMaps, tps \in ShortTimelines : InitOn(objs, tps)
    \/ \E objs \in PatternMaps : InitOn(objs, <<TimingPoint(Zero, Int2F(400))>>)
    \/ \E objs \in UnisonMaps : InitOn(objs, <<>>)

Spec == Init /\ [][Next]_vars

----------------------------------------------------------------------------
(* tempo timelines of several segments *)

MaxTiming == 3

\* 400.0004 ms rounds to the key 400.0
BeatLens == {Int2F(400), Int2F(200), F(1000001, 2500)}

\* n segments, one second apart, the first at time 0
Timelines(n) ==
    {[i \in 1..n |-> TimingPoint(Int2F(1000 * (i - 1)), bl[i])] : bl \in [1..n -> BeatLens]}

\* the last note of objs turned into a slider or spinner that ends at end_time
EndsAt(objs, end_time) == [objs EXCEPT ![Len(objs)].end_time = end_time]

TempoMaps ==
    {<<>>}
    \cup {OutlierMap(3, base, 0) : base \in {Int2F(100), Int2F(200)}}
    \cup {EndsAt(OutlierMap(3, base, 0), Int2F(2000)) : base \in {Int2F(100), Int2F(200)}}

InitTempo == \E objs \in TempoMaps, n \in 0..MaxTiming : \E tps \in Timelines(n) : InitOn(objs, tps)

SpecTempo == InitTempo /\ [][Next]_vars

----------------------------------------------------------------------------
(* the 1000-note example: one tempo segment of beat length 333.3 ms *)

ExampleNotes == 1000

\* a shorter sequence, whose last window holds 10 notes
TailNotes == 210

ExamplePositions == [i \in 1..ExampleNotes |-> IF i % 2 = 1 THEN Near ELSE Far]

\* every gap 166.7 ms (half a beat), or every gap 83.325 ms (a quarter of a beat)
ExampleMaps ==
    {[i \in 1..n |-> HitObject(FMul(Int2F(i - 1), gap), ExamplePositions[i])] :
        gap \in {F(1667, 10), F(3333, 40)}, n \in {ExampleNotes, TailNotes}}

InitExample == \E objs \in ExampleMaps : InitOn(objs, <<TimingPoint(Zero, F(3333, 10))>>)

SpecExample == InitExample /\ [][Next]_vars

----------------------------------------------------------------------------
(* properties *)

JumpDone == jump.phase = "done" /\ jump_result # <<>>

StreamDone == stream.phase = "done" /\ stream_result # <<>>

\* C1: for an empty note sequence, whatever the tempo timeline, Jump::analyze
\* and Stream::analyze return all counts 0, peak density 0, max run length 0
\* and overall_confidence exactly 0.
C1_EmptyMapAllZero ==
    hit_objects = <<>> =>
        /\ jump_result # <<>> =>
              /\ jump_result[1].total_jump_count = 0
              /\ jump_result[1].short_jumps_count = 0
              /\ jump_result[1].medium_jumps_count = 0
              /\ jump_result[1].long_jumps_count = 0
              /\ jump_result[1].max_jump_length = 0
              /\ jump_result[1].peak_jump_density = Zero
              /\ jump_result[1].overall_confidence = Zero
        /\ stream_result # <<>> =>
              /\ stream_result[1].short_streams = 0
              /\ stream_result[1].medium_streams = 0
              /\ stream_result[1].long_streams = 0
              /\ stream_result[1].max_stream_length = 0
              /\ stream_result[1].peak_stream_density = Zero
              /\ stream_result[1].overall_confidence = Zero

\* C2: for every input, also one where an intermediate term is a division by
\* zero, the overall_confidence either analyzer returns is at most 1.0.
C2_ConfidenceAtMostOne ==
    /\ jump_result # <<>> => FLe(jump_result[1].overall_confidence, One)
    /\ stream_result # <<>> => FLe(stream_result[1].overall_confidence, One)

\* both analyzers have returned, Jump from a sum that is NaN (0/0 runs) and
\* Stream from a sum above 1, and both confidences are 1.0
C2_Witness ==
    /\ JumpDone
    /\ StreamDone
    /\ IsNaN(jump_confidence_sum(jump))
    /\ ~FLe(stream_confidence_sum(stream), One)
    /\ jump_result[1].overall_confidence = One
    /\ stream_result[1].overall_confidence = One

\* C4: for an empty tempo timeline bpm returns exactly 1.0, so that the
\* expected interval of the analyzers is finite and strictly positive.
C4_EmptyTimelineBpmIsOne ==
    timing_points = <<>> =>
        /\ jump.phase # "none" =>
              /\ jump.bpm = One
              /\ IsFinite(jump.expected_jump_interval)
              /\ jump.expected_jump_interval.n > 0
        /\ stream.phase # "none" =>
              /\ stream.bpm = One
              /\ IsFinite(stream.expected_stream_interval)
              /\ stream.expected_stream_interval.n > 0

\* C5: a second call of analyze on the same analyzer returns the result of
\* the first in every field, and bpm picks the same beat length in every call.
C5_RepeatedCallsAgree ==
    [][/\ jump_result # <<>> => jump_result' = jump_result
       /\ stream_result # <<>> => stream_result' = stream_result
       /\ (jump.phase = "done" /\ jump'.phase = "loop") => jump'.bpm = jump.bpm
       /\ (stream.phase = "done" /\ stream'.phase = "loop") => stream'.bpm = stream.bpm]_vars

\* the confidence formula of the specification, on the quantities of one call
SpecConfidence(density, consistency, short, medium, long, count, notes, w1, w2, w3, w4, w5) ==
    LET long_ratio == FDiv(Int2F(long), Int2F(Max(1, count)))
        average_run_length == IF count = 0 THEN Zero ELSE FDiv(Int2F(notes), Int2F(count))
        variety == FDiv(Int2F(medium * 2 + long * 3), Int2F(Max(1, short + medium + long)))
    IN  FMin(One,
             FAdd(FAdd(FAdd(FAdd(FMul(density, w1), FMul(consistency, w2)),
                            FMul(variety, w3)),
                       FMul(long_ratio, w4)),
                  FMul(FMin(One, FDiv(average_run_length, Int2F(3))), w5)))

\* C6: overall_confidence = min(1, density*w1 + bpm_consistency*w2 + variety*w3
\* + long_ratio*w4 + min(1, average_run_length/3)*w5), long_ratio being
\* long_count / max(1, total_pattern_count), with the weights
\* (0.4, 0.2, 0.35, 0.45, 0.3) for Jump and (0.3, 0.2, 0.2, 0.2, 0.2) for Stream.
C6_ConfidenceFormula ==
    /\ JumpDone =>
          jump_result[1].overall_confidence =
              SpecConfidence(jump.peak_jump_density, jump.overall_bpm_consistency,
                             jump.total_short_jump_count, jump.total_medium_jump_count,
                             jump.total_long_jump_count, jump.total_jumps,
                             jump.total_jump_notes_length,
                             F(2, 5), F(1, 5), F(7, 20), F(9, 20), F(3, 10))
    /\ StreamDone =>
          stream_result[1].overall_confidence =
              SpecConfidence(stream.peak_stream_density, stream.overall_bpm_consistency,
                             stream.total_short_stream_count, stream.total_medium_stream_count,
                             stream.total_long_stream_count, stream.total_streams,
                             stream.total_stream_length,
                             F(3, 10), F(1, 5), F(1, 5), F(1, 5), F(1, 5))

----------------------------------------------------------------------------
(* properties of one scan *)

\* the loop of Jump::analyze / Stream::analyze has scanned at least one window
JumpScanned == jump.phase # "none" /\ jump.window_start > 0

StreamScanned == stream.phase # "none" /\ stream.window_start > 0

\* the window scanned last
JumpWindowNotes == SubSeq(hit_objects, jump.window_start - step_size + 1, jump.window_end)

StreamWindowNotes == SubSeq(hit_objects, stream.window_start - step_size + 1, stream.window_end)

\* the onset gap between notes i and i + 1 of w
GapOf(w, i) == FSub(w[i + 1].start_time, w[i].start_time)

\* notes i and i + 1 of w are at least 120 units apart
FarApart(w, i) ==
    (w[i + 1].pos[1] - w[i].pos[1]) * (w[i + 1].pos[1] - w[i].pos[1])
    + (w[i + 1].pos[2] - w[i].pos[2]) * (w[i + 1].pos[2] - w[i].pos[2]) >= 120 * 120

AllFarApart(w) == \A i \in 1..(Len(w) - 1) : FarApart(w, i)

Positive(e) == e.d > 0 /\ e.n > 0

\* C3 as stated: Jump counts a run of L gaps as short iff 4 <= L < 7, medium
\* iff 7 <= L < 12, long iff L >= 12; Stream as short iff 6 <= L < 10, medium
\* iff 10 <= L < 20, long iff L >= 20; shorter runs are counted in no bucket.
C3_SpecBuckets ==
    /\ JumpScanned =>
          LET L == jump.jumps_lengths IN
          /\ jump.short_jumps = Cardinality({i \in DOMAIN L : 4 <= L[i] /\ L[i] < 7})
          /\ jump.medium_jumps = Cardinality({i \in DOMAIN L : 7 <= L[i] /\ L[i] < 12})
          /\ jump.long_jumps = Cardinality({i \in DOMAIN L : 12 <= L[i]})
    /\ StreamScanned =>
          LET L == stream.stream_lengths IN
          /\ stream.short_streams = Cardinality({i \in DOMAIN L : 6 <= L[i] /\ L[i] < 10})
          /\ stream.medium_streams = Cardinality({i \in DOMAIN L : 10 <= L[i] /\ L[i] < 20})
          /\ stream.long_streams = Cardinality({i \in DOMAIN L : 20 <= L[i]})

\* C3 amended: Jump counts a run of L gaps as short iff 3 <= L < 10, medium
\* iff 10 <= L < 20, long iff L >= 20 and in no bucket when L < 3; Stream as
\* short iff 5 <= L < 10, medium iff 10 <= L < 20, long iff L >= 20 and in no
\* bucket when L < 5; so every run is in exactly one of the four classes.
C3_CodeBuckets ==
    /\ JumpScanned =>
          LET L == jump.jumps_lengths IN
          /\ jump.short_jumps = Cardinality({i \in DOMAIN L : 3 <= L[i] /\ L[i] < 10})
          /\ jump.medium_jumps = Cardinality({i \in DOMAIN L : 10 <= L[i] /\ L[i] < 20})
          /\ jump.long_jumps = Cardinality({i \in DOMAIN L : 20 <= L[i]})
          /\ jump.short_jumps + jump.medium_jumps + jump.long_jumps
                 = Len(L) - Cardinality({i \in DOMAIN L : L[i] < 3})
    /\ StreamScanned =>
          LET L == stream.stream_lengths IN
          /\ stream.short_streams = Cardinality({i \in DOMAIN L : 5 <= L[i] /\ L[i] < 10})
          /\ stream.medium_streams = Cardinality({i \in DOMAIN L : 10 <= L[i] /\ L[i] < 20})
          /\ stream.long_streams = Cardinality({i \in DOMAIN L : 20 <= L[i]})
          /\ stream.short_streams + stream.medium_streams + stream.long_streams
                 = Len(L) - Cardinality({i \in DOMAIN L : L[i] < 5})

\* one map on which Jump has counted a run of 3 gaps as short and Stream a run
\* of 22 gaps as long
C3_Witness ==
    /\ JumpScanned
    /\ StreamScanned
    /\ jump.jumps_lengths = <<3>>
    /\ jump.short_jumps = 1
    /\ stream.stream_lengths = <<22>>
    /\ stream.long_streams = 1

\* every gap of w equals e
Regular(w, e) == \A i \in 1..(Len(w) - 1) : GapOf(w, i) = e

AllZero(variations) == \A i \in DOMAIN variations : variations[i] = Zero

\* C8 as stated, for one scan: N notes with every gap equal to the expected
\* interval give one run of N - 1 gaps, jitter samples all 0, consistency 1.0
\* (read for N >= 2 and a positive expected interval only)
C8_Stated(w, e, lengths, variations, consistency) ==
    (Regular(w, e) /\ Len(w) >= 2 /\ Positive(e)) =>
        /\ lengths = <<Len(w) - 1>>
        /\ AllZero(variations)
        /\ consistency = One

\* C8: for every N, a scan over N notes whose gaps all equal the expected
\* interval (for Jump: with all distances >= 120) yields exactly one run, of
\* length N - 1, every jitter sample 0, and bpm_consistency exactly 1.0.
C8_RegularScan ==
    /\ (JumpScanned /\ AllFarApart(JumpWindowNotes)) =>
          C8_Stated(JumpWindowNotes, jump.expected_jump_interval, jump.jumps_lengths,
                    jump.bpm_variations, jump.bpm_consistency)
    /\ StreamScanned =>
          C8_Stated(StreamWindowNotes, stream.expected_stream_interval, stream.stream_lengths,
                    stream.bpm_variations, stream.bpm_consistency)

\* C8 amended, for one scan: with a positive expected interval, N >= 3 notes
\* give one run of N - 1 gaps, N - 2 jitter samples all 0 and consistency 1.0;
\* N = 2 notes give one run of 1 gap, no jitter sample and consistency 0;
\* N <= 1 notes give no run.  With expected interval 0 no gap is accepted.
C8_Amended(w, e, lengths, variations, consistency) ==
    Regular(w, e) =>
        IF Positive(e) /\ Len(w) >= 3
        THEN /\ lengths = <<Len(w) - 1>>
             /\ Len(variations) = Len(w) - 2
             /\ AllZero(variations)
             /\ consistency = One
        ELSE IF Positive(e) /\ Len(w) = 2
        THEN lengths = <<1>> /\ variations = <<>> /\ consistency = Zero
        ELSE lengths = <<>> /\ variations = <<>> /\ consistency = Zero

\* C8 amended: see C8_Amended, for the scans of Jump (all distances >= 120)
\* and of Stream.
C8_RegularScanAmended ==
    /\ (JumpScanned /\ AllFarApart(JumpWindowNotes)) =>
          C8_Amended(JumpWindowNotes, jump.expected_jump_interval, jump.jumps_lengths,
                     jump.bpm_variations, jump.bpm_consistency)
    /\ StreamScanned =>
          C8_Amended(StreamWindowNotes, stream.expected_stream_interval, stream.stream_lengths,
                     stream.bpm_variations, stream.bpm_consistency)

\* Jump has scanned 26 regular notes, all far apart, into one run of 25 gaps
C8_Witness ==
    /\ JumpScanned
    /\ Len(JumpWindowNotes) = 26
    /\ AllFarApart(JumpWindowNotes)
    /\ Positive(jump.expected_jump_interval)
    /\ Regular(JumpWindowNotes, jump.expected_jump_interval)
    /\ jump.jumps_lengths = <<25>>
    /\ Len(jump.bpm_variations) = 24
    /\ jump.bpm_consistency = One

\* gap k of w is 1.5 times e and every other gap of w equals e
OneOutlier(w, e, k) ==
    /\ Positive(e)
    /\ k \in 1..(Len(w) - 1)
    /\ \A i \in 1..(Len(w) - 1) : GapOf(w, i) = IF i = k THEN FMul(e, F(3, 2)) ELSE e

\* C9 as stated, for one scan with the outlier at gap k (read for sequences
\* with at least two regular gaps only)
C9_Stated(w, e, k, lengths, variations) ==
    (OneOutlier(w, e, k) /\ Len(w) >= 4) =>
        /\ Len(lengths) = 2
        /\ Sum(lengths) = Len(w) - 2
        /\ Len(variations) = Sum(lengths) - Len(lengths)
        /\ AllZero(variations)

\* C9: wherever the single outlier gap (1.5 times the expected interval) is,
\* the scan records exactly two runs whose lengths sum to the number of regular
\* gaps, and the outlier is in no run and gives no jitter sample.
C9_OutlierSplits ==
    /\ (JumpScanned /\ AllFarApart(JumpWindowNotes)) =>
          \A k \in 1..(Len(JumpWindowNotes) - 1) :
              C9_Stated(JumpWindowNotes, jump.expected_jump_interval, k,
                        jump.jumps_lengths, jump.bpm_variations)
    /\ StreamScanned =>
          \A k \in 1..(Len(StreamWindowNotes) - 1) :
              C9_Stated(StreamWindowNotes, stream.expected_stream_interval, k,
                        stream.stream_lengths, stream.bpm_variations)

\* the run of n gaps, if there is one
RunOf(n) == IF n > 0 THEN <<n>> ELSE <<>>

\* C9 amended, for one scan with the outlier at gap k of m gaps: the runs are
\* the k - 1 gaps before it and the m - k gaps after it, so two runs when the
\* outlier is interior, one when it is the first or the last gap, none when it
\* is the only gap; the jitter samples are those within the runs, all 0
C9_Amended(w, e, k, lengths, variations) ==
    OneOutlier(w, e, k) =>
        /\ lengths = RunOf(k - 1) \o RunOf(Len(w) - 1 - k)
        /\ Sum(lengths) = Len(w) - 2
        /\ Len(variations) = Sum(lengths) - Len(lengths)
        /\ AllZero(variations)

\* C9 amended: see C9_Amended, for the scans of Jump (all distances >= 120)
\* and of Stream, the expected interval being positive.
C9_OutlierSplitsAmended ==
    /\ (JumpScanned /\ AllFarApart(JumpWindowNotes)) =>
          \A k \in 1..(Len(JumpWindowNotes) - 1) :
              C9_Amended(JumpWindowNotes, jump.expected_jump_interval, k,
                         jump.jumps_lengths, jump.bpm_variations)
    /\ StreamScanned =>
          \A k \in 1..(Len(StreamWindowNotes) - 1) :
              C9_Amended(StreamWindowNotes, stream.expected_stream_interval, k,
                         stream.stream_lengths, stream.bpm_variations)

\* Stream has scanned 12 notes with the outlier at gap 4: runs of 3 and 7 gaps
C9_Witness ==
    /\ StreamScanned
    /\ Len(StreamWindowNotes) = 12
    /\ OneOutlier(StreamWindowNotes, stream.expected_stream_interval, 4)
    /\ stream.stream_lengths = <<3, 7>>
    /\ Len(stream.bpm_variations) = 8

\* whether each gap of w passes the interval test (and, with gate, the
\* distance test), written without division
AcceptedGaps(w, e, gate) ==
    [i \in 1..(Len(w) - 1) |->
        /\ Positive(e)
        /\ FLe(FMul(Int2F(10), FAbs(FSub(GapOf(w, i), e))), e)
        /\ gate => FarApart(w, i)]

\* the gaps at which a maximal stretch of accepted gaps starts
RunStarts(acc) == {a \in DOMAIN acc : acc[a] /\ (a = 1 \/ ~acc[a - 1])}

\* the number of gaps of the maximal stretch that starts at gap a
RunLength(acc, a) ==
    CHOOSE n \in 1..(Len(acc) - a + 1) :
        /\ \A i \in a..(a + n - 1) : acc[i]
        /\ a + n - 1 = Len(acc) \/ ~acc[a + n]

\* lengths lists, in order, the length of every maximal stretch of accepted
\* gaps, the stretches of a single gap included
RecordsEveryRun(acc, lengths) ==
    /\ Len(lengths) = Cardinality(RunStarts(acc))
    /\ \A a \in RunStarts(acc) :
           lengths[Cardinality({x \in RunStarts(acc) : x <= a})] = RunLength(acc, a)

\* C10: every run length the segmenter records is at least 2: a single
\* accepted gap standing alone is never recorded as a run.
C10_RunsAtLeastTwo ==
    /\ JumpScanned => \A i \in DOMAIN jump.jumps_lengths : jump.jumps_lengths[i] >= 2
    /\ StreamScanned => \A i \in DOMAIN stream.stream_lengths : stream.stream_lengths[i] >= 2

\* C10 amended: every run length the segmenter records is at least 1: the
\* list holds every maximal stretch of accepted gaps, also a single accepted
\* gap standing alone (a run of length 1), and every recorded run counts in
\* the run total and the note total of the call.
C10_RunsAtLeastOne ==
    /\ JumpScanned =>
          /\ \A i \in DOMAIN jump.jumps_lengths : jump.jumps_lengths[i] >= 1
          /\ RecordsEveryRun(AcceptedGaps(JumpWindowNotes, jump.expected_jump_interval, TRUE),
                             jump.jumps_lengths)
          /\ jump.window_start = step_size =>
                 /\ jump.total_jumps = Len(jump.jumps_lengths)
                 /\ jump.total_jump_notes_length = Sum(jump.jumps_lengths)
    /\ StreamScanned =>
          /\ \A i \in DOMAIN stream.stream_lengths : stream.stream_lengths[i] >= 1
          /\ RecordsEveryRun(AcceptedGaps(StreamWindowNotes, stream.expected_stream_interval, FALSE),
                             stream.stream_lengths)
          /\ stream.window_start = step_size =>
                 /\ stream.total_streams = Len(stream.stream_lengths)
                 /\ stream.total_stream_length = Sum(stream.stream_lengths)

\* Jump has scanned four notes whose middle gap alone is accepted, and has
\* recorded it as a run of length 1 that counts in total_jumps
C10_Witness ==
    /\ JumpScanned
    /\ Len(JumpWindowNotes) = 4
    /\ AcceptedGaps(JumpWindowNotes, jump.expected_jump_interval, TRUE) = <<FALSE, TRUE, FALSE>>
    /\ jump.jumps_lengths = <<1>>
    /\ jump.total_jumps = 1

----------------------------------------------------------------------------
(* the 1000-note example *)

\* the first index of every window of the loop over n notes: 0, 50, 100, ...
WindowStarts(n) == {k * step_size : k \in 0..((n + step_size - 1) \div step_size - 1)}

\* the number of notes of the window that starts at index ws
WindowLen(n, ws) == Min(ws + window_size, n) - ws

\* the number of windows over n notes that hold between lo and hi gaps
WindowsWithGaps(n, lo, hi) ==
    Cardinality({ws \in WindowStarts(n) : WindowLen(n, ws) - 1 \in lo..hi})

\* C7 as stated: on the sequence of the example (every gap the same) Stream
\* finds exactly one long run: long_streams = 1, short_streams = 0,
\* medium_streams = 0, max_stream_length >= 20, bpm_consistency and peak
\* density at least 0.99.
C7_OneLongStream ==
    (StreamDone /\ Len(hit_objects) = ExampleNotes) =>
        /\ stream_result[1].long_streams = 1
        /\ stream_result[1].short_streams = 0
        /\ stream_result[1].medium_streams = 0
        /\ stream_result[1].max_stream_length >= 20
        /\ FLe(F(99, 100), stream_result[1].bpm_consistency)
        /\ FLe(F(99, 100), stream_result[1].peak_stream_density)

\* C7 amended: when every gap equals the expected stream interval (a quarter
\* of the beat: 83.325 ms at beat length 333.3 ms), every window of the loop
\* holds one run of all its gaps and the run is counted once per window: for
\* N > 200 notes long_streams is the number of windows of at least 20 gaps
\* (20 for N = 1000), medium_streams and short_streams those of the windows
\* of 10..19 and 5..9 gaps, max_stream_length = 199, bpm_consistency = 1.0
\* and peak_stream_density = 199/200.  When every gap is 166.7 ms (half a
\* beat, as in the example) no gap is accepted and every count, the max
\* length, the density and the consistency are 0.
C7_LongStreamPerWindow ==
    StreamDone =>
        LET n == Len(hit_objects)
            r == stream_result[1]
        IN  IF Regular(hit_objects, stream.expected_stream_interval)
            THEN /\ r.long_streams = WindowsWithGaps(n, 20, window_size)
                 /\ r.medium_streams = WindowsWithGaps(n, 10, 19)
                 /\ r.short_streams = WindowsWithGaps(n, 5, 9)
                 /\ r.max_stream_length = Min(n, window_size) - 1
                 /\ r.bpm_consistency = One
                 /\ r.peak_stream_density
                        = FDiv(Int2F(Min(n, window_size) - 1), Int2F(Min(n, window_size)))
            ELSE /\ Regular(hit_objects, F(1667, 10))
                 /\ r.long_streams = 0
                 /\ r.medium_streams = 0
                 /\ r.short_streams = 0
                 /\ r.max_stream_length = 0
                 /\ r.bpm_consistency = Zero
                 /\ r.peak_stream_density = Zero

\* Stream has returned on the sequence of quarter-beat gaps: one long run in
\* each of at least 20 windows
C7_Witness ==
    /\ StreamDone
    /\ Len(hit_objects) >= 1000
    /\ Regular(hit_objects, stream.expected_stream_interval)
    /\ stream.expected_stream_interval = F(3333, 40)
    /\ stream_result[1].long_streams = 20
    /\ stream_result[1].max_stream_length = 199

====
